---- MODULE Spec2Model ----
(***************************************************************************)
(* Critical Path Method calculator (cpm-app).                              *)
(*                                                                         *)
(* The scheduling engine of cpm-app/src/lib/utils/cpm.ts (topological      *)
(* sort with cycle detection, forward pass, backward pass, slack and       *)
(* critical path), the path enumeration of src/lib/utils/cpmCalculator.ts, *)
(* the handlers of the calculator page that call the engine, and the       *)
(* schedule calculation of src/lib/utils/cpmCalculator.ts.                 *)
(***************************************************************************)
EXTENDS Integers, Sequences, FiniteSets, TLC

(***************************************************************************)
(* Bounds of the model.                                                    *)
(***************************************************************************)
\* Number of tasks of a generated project.
MaxTasks == 3
\* Largest duration of a generated task (durations are 0..MaxDur).
MaxDur == 1
\* Largest number of dependencies entries in a generated project.
MaxEdges == 2

\* The ids tasks are generated with, in the order of the input collection.
TaskIds == <<"A", "B", "C", "D", "E", "F", "G">>
\* An id that names no task (a dangling dependency).
MissingId == "X"

\* Number.POSITIVE_INFINITY, above every time the bounded model computes.
Infinity == 1000000

VARIABLES
    tasks,        \* the page's task list: Seq of [id, duration, dependencies]
    cpmResults,   \* the page's cpmResults: NoResults (null) or a ProjectCPMResults
    callStatus,   \* how the last calculateCPM call since tasks changed ended
    project,      \* a caller's project.activities: Seq of Activity objects
    cpmResult,    \* what cpmCalculator's calculateCPM returned for project
    projectPaths, \* NoResults, or in paths what findAllPaths returned for project
    pc,           \* where a call of the rescanning calculateCPM stands:
                  \* "idle", "earliest" (first loop), "latest" (second loop), "done"
    earliest,     \* results of its calculateEarliestTimes: id -> [start, finish]
    latest,       \* results of its calculateLatestTimes: id -> [start, finish]
    taskOrder,    \* taskOrder of its calculateLatestTimes
    maxDuration,  \* maxDuration of the call
    rescanResults, \* cpmResults of the page that calls it: NoResults or a CPMResults
    taskToEdit,   \* the page's taskToEdit: NoTask (null) or in task a Task object
    taskDependencies, \* taskDependencies of the TaskForm on the page (<<>> while
                  \* no form is shown)
    activeTab,    \* the page's activeTab: "form", "table" or "graph"
    uuids,        \* how many ids uuidv4 has handed to the TaskForm
    changesLeft   \* how many more times the form and the list change tasks

pageVars == <<tasks, cpmResults, callStatus>>

calculatorVars == <<project, cpmResult, projectPaths>>

rescanVars == <<pc, earliest, latest, taskOrder, maxDuration, rescanResults>>

formVars == <<taskToEdit, taskDependencies, activeTab, uuids, changesLeft>>

vars == <<tasks, cpmResults, callStatus, project, cpmResult, projectPaths,
          pc, earliest, latest, taskOrder, maxDuration, rescanResults,
          taskToEdit, taskDependencies, activeTab, uuids, changesLeft>>

(***************************************************************************)
(* Helpers on sequences and sets.                                          *)
(***************************************************************************)
Range(s) == {s[i] : i \in DOMAIN s}

RECURSIVE SumSeq(_)
SumSeq(s) == IF s = <<>> THEN 0 ELSE Head(s) + SumSeq(Tail(s))

MaxOf(S) == CHOOSE x \in S : \A y \in S : y <= x

MinOf(S) == CHOOSE x \in S : \A y \in S : x <= y

(***************************************************************************)
(* calculateCPM of cpm-app/src/lib/utils/cpm.ts.                           *)
(***************************************************************************)
\* taskMap: id -> task; Map.set keeps the last task of an id.
TaskMapOf(ts) ==
    [id \in {ts[i].id : i \in DOMAIN ts} |->
        ts[CHOOSE i \in DOMAIN ts :
              /\ ts[i].id = id
              /\ \A j \in DOMAIN ts : j > i => ts[j].id # id]]

RECURSIVE visit(_, _, _), visitDependencies(_, _, _)
\* Mutant: a task met while it is being visited is skipped instead of reported.
visit_SkipVisiting(taskId, taskMap, st) ==
    IF st.thrown THEN st
    ELSE IF taskId \in st.visited \/ taskId \in st.visiting THEN st
    ELSE LET entered == [st EXCEPT !.visiting = @ \cup {taskId}]
             after == IF taskId \in DOMAIN taskMap
                         THEN visitDependencies(taskMap[taskId].dependencies,
                                                taskMap, entered)
                         ELSE entered
         IN  [after EXCEPT !.visiting = @ \ {taskId},
                           !.visited = @ \cup {taskId},
                           !.result = Append(@, taskId)]

\* Mutant: the task is pushed before its dependencies are visited.
visit_PushFirst(taskId, taskMap, st) ==
    IF st.thrown THEN st
    ELSE IF taskId \in st.visited THEN st
    ELSE IF taskId \in st.visiting
        THEN [st EXCEPT !.thrown = TRUE, !.cycleTask = taskId]
    ELSE LET entered == [st EXCEPT !.visiting = @ \cup {taskId},
                                   !.result = Append(@, taskId)]
             after == IF taskId \in DOMAIN taskMap
                         THEN visitDependencies(taskMap[taskId].dependencies,
                                                taskMap, entered)
                         ELSE entered
         IN  IF after.thrown THEN after
             ELSE [after EXCEPT !.visiting = @ \ {taskId},
                                !.visited = @ \cup {taskId}]

\* The depth-first visit of topologicalSort. st = [visited, visiting, result,
\* thrown, cycleTask]; result holds the id of each pushed entry: the entry is
\* taskMap.get(id), which is undefined when the id names no task.
visit(taskId, taskMap, st) ==
    IF st.thrown THEN st
    ELSE IF taskId \in st.visited THEN st
    ELSE IF taskId \in st.visiting
        THEN [st EXCEPT !.thrown = TRUE, !.cycleTask = taskId]
    ELSE LET entered == [st EXCEPT !.visiting = @ \cup {taskId}]
             after == IF taskId \in DOMAIN taskMap
                         THEN visitDependencies(taskMap[taskId].dependencies,
                                                taskMap, entered)
                         ELSE entered
         IN  IF after.thrown THEN after
             ELSE [after EXCEPT !.visiting = @ \ {taskId},
                                !.visited = @ \cup {taskId},
                                !.result = Append(@, taskId)]

visitDependencies(deps, taskMap, st) ==
    IF deps = <<>> \/ st.thrown THEN st
    ELSE visitDependencies(Tail(deps), taskMap, visit(Head(deps), taskMap, st))

RECURSIVE visitAll(_, _, _)
\* Mutant: the error names the task the outer loop started the visit from.
visitAll_NamesRoot(ts, taskMap, st) ==
    IF ts = <<>> \/ st.thrown THEN st
    ELSE LET next == IF Head(ts).id \in st.visited THEN st
                     ELSE visit(Head(ts).id, taskMap, st)
         IN  visitAll(Tail(ts), taskMap,
                      IF next.thrown THEN [next EXCEPT !.cycleTask = Head(ts).id]
                      ELSE next)

visitAll(ts, taskMap, st) ==
    IF ts = <<>> \/ st.thrown THEN st
    ELSE visitAll(Tail(ts), taskMap,
                  IF Head(ts).id \in st.visited THEN st
                  ELSE visit(Head(ts).id, taskMap, st))

\* Mutant: the tasks are left in the order of the input.
topologicalSort_InputOrder(ts, taskMap) ==
    [visited |-> {ts[i].id : i \in DOMAIN ts}, visiting |-> {},
     result |-> [i \in DOMAIN ts |-> ts[i].id],
     thrown |-> FALSE, cycleTask |-> ""]

\* Returns [thrown, cycleTask, result]; result is the sorted sequence of ids.
topologicalSort(ts, taskMap) ==
    visitAll(ts, taskMap,
             [visited |-> {}, visiting |-> {}, result |-> <<>>,
              thrown |-> FALSE, cycleTask |-> ""])

\* An entry of the sorted array that is undefined: reading its .id throws.
HasUndefined(sorted, taskMap) == \E i \in DOMAIN sorted : sorted[i] \notin DOMAIN taskMap

\* Mutant: the loop keeps the earliestFinish of the last dependency, not the max.
RECURSIVE maxPredecessorEF_LastWins(_, _, _)
maxPredecessorEF_LastWins(deps, result, acc) ==
    IF deps = <<>> THEN acc
    ELSE LET depId == Head(deps)
             next == IF depId \in DOMAIN result
                        THEN result[depId].earliestFinish
                        ELSE acc
         IN  maxPredecessorEF_LastWins(Tail(deps), result, next)

\* Mutant: only the first dependency is looked at.
maxPredecessorEF_FirstOnly(deps, result, acc) ==
    IF deps = <<>> THEN acc
    ELSE IF Head(deps) \in DOMAIN result /\ result[Head(deps)].earliestFinish > acc
        THEN result[Head(deps)].earliestFinish
        ELSE acc

\* The max loop over task.dependencies, lines 117-124.
RECURSIVE maxPredecessorEF(_, _, _)
maxPredecessorEF(deps, result, acc) ==
    IF deps = <<>> THEN acc
    ELSE LET depId == Head(deps)
             next == IF depId \in DOMAIN result /\ result[depId].earliestFinish > acc
                        THEN result[depId].earliestFinish
                        ELSE acc
         IN  maxPredecessorEF(Tail(deps), result, next)

\* Mutant: earliestStart is not stored, only earliestFinish is.
earliestStep_StartNotStored(task, result) ==
    LET es == IF Len(task.dependencies) > 0
                 THEN maxPredecessorEF(task.dependencies, result, 0)
                 ELSE result[task.id].earliestStart
    IN  [result EXCEPT ![task.id] =
            [earliestStart |-> result[task.id].earliestStart,
             earliestFinish |-> es + task.duration]]

\* One iteration of the scan of lines 114-132.
earliestStep(task, result) ==
    LET es == IF Len(task.dependencies) > 0
                 THEN maxPredecessorEF(task.dependencies, result, 0)
                 ELSE result[task.id].earliestStart
    IN  [result EXCEPT ![task.id] =
            [earliestStart |-> es, earliestFinish |-> es + task.duration]]

RECURSIVE earliestScan(_, _, _, _)
earliestScan(i, sorted, taskMap, result) ==
    IF i > Len(sorted) THEN result
    ELSE earliestScan(i + 1, sorted, taskMap, earliestStep(taskMap[sorted[i]], result))

\* The scan of the sorted list taken from its last entry to its first.
RECURSIVE earliestScanBack(_, _, _, _)
earliestScanBack(i, sorted, taskMap, result) ==
    IF i < 1 THEN result
    ELSE earliestScanBack(i - 1, sorted, taskMap, earliestStep(taskMap[sorted[i]], result))

\* Mutant: the forward pass scans the sorted list backwards.
calculateEarliestTimes_ReverseScan(sorted, taskMap) ==
    earliestScanBack(Len(sorted), sorted, taskMap,
                     [id \in Range(sorted) |-> [earliestStart |-> 0, earliestFinish |-> 0]])

\* The sorted entries are all defined here (the caller has checked HasUndefined).
calculateEarliestTimes(sorted, taskMap) ==
    earliestScan(1, sorted, taskMap,
                 [id \in Range(sorted) |-> [earliestStart |-> 0, earliestFinish |-> 0]])

\* successors[depId].push(task.id) for each entry of task.dependencies, line 159.
RECURSIVE pushSuccessor(_, _, _)
pushSuccessor(deps, taskId, successors) ==
    IF deps = <<>> THEN successors
    ELSE pushSuccessor(Tail(deps), taskId,
                       [successors EXCEPT ![Head(deps)] = Append(@, taskId)])

\* The loop of lines 157-161 over the sorted tasks.
RECURSIVE buildSuccessors(_, _, _, _)
buildSuccessors(i, sorted, taskMap, successors) ==
    IF i > Len(sorted) THEN successors
    ELSE buildSuccessors(i + 1, sorted, taskMap,
                         pushSuccessor(taskMap[sorted[i]].dependencies, sorted[i],
                                       successors))

\* successors: id -> the ids of the tasks that list id, lines 152-161.
successorsOf(sorted, taskMap) ==
    buildSuccessors(1, sorted, taskMap, [id \in Range(sorted) |-> <<>>])

\* successors[depId].push on an id that is no key of successors throws.
PushThrows(sorted, taskMap) ==
    \E i \in DOMAIN sorted :
        \E d \in Range(taskMap[sorted[i]].dependencies) : d \notin Range(sorted)

\* Mutant: the comparison is turned round, so no successor lowers Infinity.
RECURSIVE minSuccessorLS_Greater(_, _, _)
minSuccessorLS_Greater(succs, result, acc) ==
    IF succs = <<>> THEN acc
    ELSE LET succId == Head(succs)
             next == IF succId \in DOMAIN result /\ result[succId].latestStart > acc
                        THEN result[succId].latestStart
                        ELSE acc
         IN  minSuccessorLS_Greater(Tail(succs), result, next)

\* The min loop over taskSuccessors, lines 178-185.
RECURSIVE minSuccessorLS(_, _, _)
minSuccessorLS(succs, result, acc) ==
    IF succs = <<>> THEN acc
    ELSE LET succId == Head(succs)
             next == IF succId \in DOMAIN result /\ result[succId].latestStart < acc
                        THEN result[succId].latestStart
                        ELSE acc
         IN  minSuccessorLS(Tail(succs), result, next)

\* Mutant: the duration is not taken off latestFinish.
latestStep_StartIsFinish(task, successors, projectDuration, result) ==
    LET lf == IF Len(successors[task.id]) > 0
                 THEN minSuccessorLS(successors[task.id], result, Infinity)
                 ELSE projectDuration
    IN  [result EXCEPT ![task.id] = [latestStart |-> lf, latestFinish |-> lf]]

\* Mutant: the branch for a task with no successors is left out.
latestStep_NoSinkBranch(task, successors, projectDuration, result) ==
    LET lf == minSuccessorLS(successors[task.id], result, Infinity)
    IN  [result EXCEPT ![task.id] =
            [latestStart |-> lf - task.duration, latestFinish |-> lf]]

\* One iteration of the reverse scan of lines 172-196.
latestStep(task, successors, projectDuration, result) ==
    LET lf == IF Len(successors[task.id]) > 0
                 THEN minSuccessorLS(successors[task.id], result, Infinity)
                 ELSE projectDuration
    IN  [result EXCEPT ![task.id] =
            [latestStart |-> lf - task.duration, latestFinish |-> lf]]

RECURSIVE latestScan(_, _, _, _, _, _)
latestScan(i, sorted, taskMap, successors, projectDuration, result) ==
    IF i < 1 THEN result
    ELSE latestScan(i - 1, sorted, taskMap, successors, projectDuration,
                    latestStep(taskMap[sorted[i]], successors, projectDuration, result))

\* The scan of the sorted list taken from its first entry to its last.
RECURSIVE latestScanForth(_, _, _, _, _, _)
latestScanForth(i, sorted, taskMap, successors, projectDuration, result) ==
    IF i > Len(sorted) THEN result
    ELSE latestScanForth(i + 1, sorted, taskMap, successors, projectDuration,
                         latestStep(taskMap[sorted[i]], successors, projectDuration, result))

\* Mutant: the backward pass scans the sorted list forwards.
calculateLatestTimes_ForwardScan(sorted, taskMap, projectDuration) ==
    latestScanForth(1, sorted, taskMap, successorsOf(sorted, taskMap),
                    projectDuration,
                    [id \in Range(sorted) |->
                        [latestStart |-> projectDuration, latestFinish |-> projectDuration]])

calculateLatestTimes(sorted, taskMap, projectDuration) ==
    latestScan(Len(sorted), sorted, taskMap, successorsOf(sorted, taskMap),
               projectDuration,
               [id \in Range(sorted) |->
                   [latestStart |-> projectDuration, latestFinish |-> projectDuration]])

\* Mutant: slack is taken from earliestFinish instead of earliestStart.
calculateSlack_FromFinish(earliestTimes, latestTimes) ==
    [taskId \in DOMAIN earliestTimes |->
        LET slack == latestTimes[taskId].latestStart - earliestTimes[taskId].earliestFinish
        IN  [slack |-> slack, isCritical |-> (slack = 0)]]

\* Mutant: every task is given slack 0.
calculateSlack_AllZero(earliestTimes, latestTimes) ==
    [taskId \in DOMAIN earliestTimes |-> [slack |-> 0, isCritical |-> TRUE]]

\* Slack = LS - ES and isCritical = (slack === 0), lines 213-224.
calculateSlack(earliestTimes, latestTimes) ==
    [taskId \in DOMAIN earliestTimes |->
        LET slack == latestTimes[taskId].latestStart - earliestTimes[taskId].earliestStart
        IN  [slack |-> slack, isCritical |-> (slack = 0)]]

calculateTaskResults(earliestTimes, latestTimes) ==
    LET slackResults == calculateSlack(earliestTimes, latestTimes)
    IN  [taskId \in DOMAIN earliestTimes |->
            [taskId |-> taskId,
             earliestStart |-> earliestTimes[taskId].earliestStart,
             earliestFinish |-> earliestTimes[taskId].earliestFinish,
             latestStart |-> latestTimes[taskId].latestStart,
             latestFinish |-> latestTimes[taskId].latestFinish,
             slack |-> slackResults[taskId].slack,
             isCritical |-> slackResults[taskId].isCritical]]

\* Mutant: the filter on isCritical is left out.
findCriticalPath_NoFilter(keys, results) == keys

\* Object.values(cpmResults) lists the entries in insertion order: keys is that
\* order (the ids are not integer-like strings).
findCriticalPath(keys, results) ==
    SelectSeq(keys, LAMBDA id : results[id].isCritical)

\* Mutant: Math.min in place of Math.max.
projectDurationOf_Min(earliestTimes) ==
    MinOf({earliestTimes[id].earliestFinish : id \in DOMAIN earliestTimes})

\* Math.max(...Object.values(earliestTimes).map(et => et.earliestFinish)), line 26.
projectDurationOf(earliestTimes) ==
    MaxOf({earliestTimes[id].earliestFinish : id \in DOMAIN earliestTimes})

\* [thrown |-> "none" | "CycleError" | "TypeError", cycleTask, value]
calculateCPM(ts) ==
    LET taskMap == TaskMapOf(ts)
        sort == topologicalSort(ts, taskMap)
        sortedTasks == sort.result
    IN  IF sort.thrown
            THEN [thrown |-> "CycleError", cycleTask |-> sort.cycleTask]
        ELSE IF HasUndefined(sortedTasks, taskMap) \/ PushThrows(sortedTasks, taskMap)
            THEN [thrown |-> "TypeError", cycleTask |-> ""]
        ELSE LET earliestTimes == calculateEarliestTimes(sortedTasks, taskMap)
                 projectDuration == projectDurationOf(earliestTimes)
                 latestTimes == calculateLatestTimes(sortedTasks, taskMap, projectDuration)
                 results == calculateTaskResults(earliestTimes, latestTimes)
             IN  [thrown |-> "none", cycleTask |-> "",
                  value |-> [projectDuration |-> projectDuration,
                             criticalPath |-> findCriticalPath(sortedTasks, results),
                             taskResults |-> results]]

(***************************************************************************)
(* calculateCPM_AoA of cpm-app/src/lib/utils/cpm.ts.                       *)
(***************************************************************************)
\* convertTasksToEvents: return [].
convertTasksToEvents(ts) == <<>>

\* calculateEarliestEventTimes: an empty body, the events stay as they are.
calculateEarliestEventTimes(events, ts) == events

\* calculateLatestEventTimes: an empty body, the events stay as they are.
calculateLatestEventTimes(events, ts, projectDuration) == events

\* convertEventResultsToTaskResults: return {}, the record without keys.
convertEventResultsToTaskResults(events, ts) == <<>>

\* Math.max(...events.map(e => e.earliestTime)); Math.max() is -Infinity.
maxEventTimeOf(events) ==
    IF events = <<>> THEN -Infinity
    ELSE MaxOf({events[i].earliestTime : i \in DOMAIN events})

calculateCPM_AoA(ts) ==
    LET events == convertTasksToEvents(ts)
        early == calculateEarliestEventTimes(events, ts)
        maxEventTime == maxEventTimeOf(early)
        late == calculateLatestEventTimes(early, ts, maxEventTime)
        results == convertEventResultsToTaskResults(late, ts)
    IN  [projectDuration |-> maxEventTime,
         criticalPath |-> findCriticalPath(<<>>, results),
         taskResults |-> results]

(***************************************************************************)
(* findAllPaths of src/lib/utils/cpmCalculator.ts.                         *)
(***************************************************************************)
\* The project of a task list: an activity's predecessors are the task's
\* dependencies.
ActivitiesOf(ts) ==
    [i \in DOMAIN ts |->
        [id |-> ts[i].id, duration |-> ts[i].duration,
         predecessors |-> ts[i].dependencies]]

\* activityMap: id -> activity; Map.set keeps the last activity of an id.
ActivityMapOf(activities) ==
    [id \in {activities[i].id : i \in DOMAIN activities} |->
        activities[CHOOSE i \in DOMAIN activities :
              /\ activities[i].id = id
              /\ \A j \in DOMAIN activities : j > i => activities[j].id # id]]

\* activitySuccessors.get(id) || []
SuccessorsGet(activitySuccessors, id) ==
    IF id \in DOMAIN activitySuccessors THEN activitySuccessors[id] ELSE <<>>

\* The inner forEach of lines 196-200: get or [], push, set.
RECURSIVE addSuccessor(_, _, _)
addSuccessor(predecessors, activityId, activitySuccessors) ==
    IF predecessors = <<>> THEN activitySuccessors
    ELSE LET p == Head(predecessors)
             pushed == Append(SuccessorsGet(activitySuccessors, p), activityId)
         IN  addSuccessor(Tail(predecessors), activityId,
                          [id \in DOMAIN activitySuccessors \cup {p} |->
                              IF id = p THEN pushed ELSE activitySuccessors[id]])

\* The successor map of lines 189-201.
RECURSIVE buildActivitySuccessors(_, _, _)
buildActivitySuccessors(i, activities, activitySuccessors) ==
    IF i > Len(activities) THEN activitySuccessors
    ELSE buildActivitySuccessors(i + 1, activities,
                                 addSuccessor(activities[i].predecessors,
                                              activities[i].id, activitySuccessors))

activitySuccessorsOf(activities) ==
    buildActivitySuccessors(1, activities,
                            [id \in {activities[i].id : i \in DOMAIN activities} |-> <<>>])

\* The recursive helper of lines 217-240; a path is the sequence of its ids.
RECURSIVE findPaths(_, _, _, _, _), findPathsOfSuccessors(_, _, _, _, _)
findPaths(activityId, currentPath, allPaths, activityMap, activitySuccessors) ==
    LET path == Append(currentPath, activityId)
        successors == SuccessorsGet(activitySuccessors, activityId)
    IN  IF Len(successors) = 0 THEN Append(allPaths, path)
        ELSE findPathsOfSuccessors(successors, path, allPaths, activityMap,
                                   activitySuccessors)

\* Mutant: only the first successor is followed.
findPathsOfSuccessors_FirstOnly(successors, path, allPaths, activityMap, activitySuccessors) ==
    IF successors = <<>> THEN allPaths
    ELSE IF Head(successors) \in DOMAIN activityMap
        THEN findPaths(Head(successors), path, allPaths, activityMap, activitySuccessors)
        ELSE allPaths

findPathsOfSuccessors(successors, path, allPaths, activityMap, activitySuccessors) ==
    IF successors = <<>> THEN allPaths
    ELSE findPathsOfSuccessors(
             Tail(successors), path,
             IF Head(successors) \in DOMAIN activityMap
                 THEN findPaths(Head(successors), path, allPaths, activityMap,
                                activitySuccessors)
                 ELSE allPaths,
             activityMap, activitySuccessors)

\* startActivities.forEach(start => findPaths(start, [], paths))
RECURSIVE findPathsFromStarts(_, _, _, _)
findPathsFromStarts(starts, allPaths, activityMap, activitySuccessors) ==
    IF starts = <<>> THEN allPaths
    ELSE findPathsFromStarts(Tail(starts),
                             findPaths(Head(starts).id, <<>>, allPaths, activityMap,
                                       activitySuccessors),
                             activityMap, activitySuccessors)

\* Does not terminate on a cycle that a start activity reaches.
findAllPaths(activities) ==
    findPathsFromStarts(SelectSeq(activities, LAMBDA a : Len(a.predecessors) = 0),
                        <<>>, ActivityMapOf(activities),
                        activitySuccessorsOf(activities))

(***************************************************************************)
(* calculateCPM of src/lib/utils/cpmCalculator.ts.  The activities are     *)
(* objects that the copied array, the ordered array and the caller's       *)
(* project.activities share: heap maps an id to the object of that id, and *)
(* an array is the sequence of the ids of its objects.                     *)
(***************************************************************************)
\* The objects of an activities array, by id.
HeapOf(activities) == ActivityMapOf(activities)

\* The array of the objects of the given ids.
ObjectsOf(ids, heap) == [i \in DOMAIN ids |-> heap[ids[i]]]

\* The depth-first visit of lines 42-56: st = [visited, result]; no check for
\* an activity that is met again while its predecessors are being visited.
RECURSIVE cpmCalculator_visit(_, _, _), visitPredecessors(_, _, _)
cpmCalculator_visit(activityId, activityMap, st) ==
    IF activityId \in st.visited THEN st
    ELSE LET entered == [st EXCEPT !.visited = @ \cup {activityId}]
         IN  IF activityId \notin DOMAIN activityMap THEN entered
             ELSE LET after == visitPredecessors(activityMap[activityId].predecessors,
                                                 activityMap, entered)
                  IN  [after EXCEPT !.result = Append(@, activityId)]

visitPredecessors(predecessors, activityMap, st) ==
    IF predecessors = <<>> THEN st
    ELSE visitPredecessors(Tail(predecessors), activityMap,
                           cpmCalculator_visit(Head(predecessors), activityMap, st))

\* The forEach of lines 59-63.
RECURSIVE visitActivities(_, _, _)
visitActivities(activities, activityMap, st) ==
    IF activities = <<>> THEN st
    ELSE visitActivities(Tail(activities), activityMap,
                         IF Head(activities).id \in st.visited THEN st
                         ELSE cpmCalculator_visit(Head(activities).id, activityMap, st))

\* The ids of the ordered array.
cpmCalculator_topologicalSort(activities) ==
    visitActivities(activities, ActivityMapOf(activities),
                    [visited |-> {}, result |-> <<>>]).result

\* The forEach over activity.predecessors of lines 85-91.
RECURSIVE maxEFOf(_, _, _, _)
maxEFOf(predecessors, ids, heap, maxEF) ==
    IF predecessors = <<>> THEN maxEF
    ELSE LET p == Head(predecessors)
         IN  maxEFOf(Tail(predecessors), ids, heap,
                     IF p \in ids /\ heap[p].earliestFinish > maxEF
                         THEN heap[p].earliestFinish
                         ELSE maxEF)

\* The forEach of lines 82-100, writing into the objects.
RECURSIVE forwardScan(_, _, _)
forwardScan(i, activities, heap) ==
    IF i > Len(activities) THEN heap
    ELSE LET activity == heap[activities[i]]
             es == IF Len(activity.predecessors) > 0
                      THEN maxEFOf(activity.predecessors, Range(activities), heap, 0)
                      ELSE 0
         IN  forwardScan(i + 1, activities,
                         [heap EXCEPT ![activities[i]].earliestStart = es,
                                      ![activities[i]].earliestFinish = es + activity.duration])

\* forwardPass: the reset of lines 73-76, then the scan.
forwardPass(activities, heap) ==
    forwardScan(1, activities,
                [id \in DOMAIN heap |->
                    IF id \in Range(activities)
                        THEN [heap[id] EXCEPT !.earliestStart = 0, !.earliestFinish = 0]
                        ELSE heap[id]])

\* The loop of lines 139-164, writing into the objects.
RECURSIVE backwardScan(_, _, _, _, _)
backwardScan(i, activities, activitySuccessors, projectDuration, heap) ==
    IF i < 1 THEN heap
    ELSE LET activity == heap[activities[i]]
             successors == SuccessorsGet(activitySuccessors, activity.id)
             lf == IF Len(successors) = 0 THEN projectDuration
                   ELSE MinOf({IF s \in Range(activities)
                                   THEN heap[s].latestStart
                                   ELSE projectDuration : s \in Range(successors)})
             ls == lf - activity.duration
             slack == ls - activity.earliestStart
         IN  backwardScan(i - 1, activities, activitySuccessors, projectDuration,
                          [heap EXCEPT ![activities[i]].latestFinish = lf,
                                       ![activities[i]].latestStart = ls,
                                       ![activities[i]].slack = slack,
                                       ![activities[i]].isCritical = (slack = 0)])

\* backwardPass: [projectDuration, heap].
backwardPass(activities, heap) ==
    LET projectDuration == MaxOf({heap[id].earliestFinish : id \in Range(activities)})
        initialised == [id \in DOMAIN heap |->
                           IF id \in Range(activities)
                               THEN [heap[id] EXCEPT !.latestFinish = projectDuration,
                                                     !.latestStart = 0,
                                                     !.slack = 0,
                                                     !.isCritical = FALSE]
                               ELSE heap[id]]
        activitySuccessors == activitySuccessorsOf(ObjectsOf(activities, initialised))
    IN  [projectDuration |-> projectDuration,
         heap |-> backwardScan(Len(activities), activities, activitySuccessors,
                               projectDuration, initialised)]

\* activities.filter(activity => activity.isCritical), as ids.
cpmCalculator_findCriticalPath(activities, heap) ==
    SelectSeq(activities, LAMBDA id : heap[id].isCritical)

\* The return statement of lines 23-27, and the caller's project.activities
\* when the call has returned.
cpmResultOf(activities, orderedActivities, projectDuration, heap) ==
    [value |-> [criticalPath |-> cpmCalculator_findCriticalPath(orderedActivities, heap),
                projectDuration |-> projectDuration,
                activities |-> ObjectsOf(orderedActivities, heap)],
     activities |-> [i \in DOMAIN activities |-> heap[activities[i].id]]]

\* value is the CPMResult; activities is the caller's project.activities when
\* the call has returned.
cpmCalculator_calculateCPM(activities) ==
    LET orderedActivities == cpmCalculator_topologicalSort(activities)
    IN  CHOOSE r \in
            {cpmResultOf(activities, orderedActivities, backward.projectDuration,
                         backward.heap) :
                backward \in {backwardPass(orderedActivities,
                                           forwardPass(orderedActivities,
                                                       HeapOf(activities)))}} : TRUE

(***************************************************************************)
(* calculateCPM of src/lib/utils/cpm.ts: the variant that rescans the task *)
(* list until a scan changes nothing.                                      *)
(***************************************************************************)
\* Number.MAX_SAFE_INTEGER; only its being above every time matters here.
MAX_SAFE_INTEGER == Infinity

\* results[task.id] = { start: 0, finish: task.duration }, lines 8-10.
initialEarliestTimes(ts) ==
    [id \in DOMAIN TaskMapOf(ts) |->
        [start |-> 0, finish |-> TaskMapOf(ts)[id].duration]]

\* The forEach over task.dependencies of lines 19-23; an id without an entry
\* in the results is passed over.
RECURSIVE maxPredecessorFinish(_, _, _)
maxPredecessorFinish(deps, times, acc) ==
    IF deps = <<>> THEN acc
    ELSE maxPredecessorFinish(Tail(deps), times,
             IF Head(deps) \in DOMAIN times /\ times[Head(deps)].finish > acc
                 THEN times[Head(deps)].finish
                 ELSE acc)

\* Mutant: a predecessor finish equal to the stored start also counts as a change.
earliestRescanStep_NotStrict(task, st) ==
    LET m == maxPredecessorFinish(task.dependencies, st.times, 0)
    IN  IF m >= st.times[task.id].start
            THEN [times |-> [st.times EXCEPT ![task.id] =
                                [start |-> m, finish |-> m + task.duration]],
                  changed |-> TRUE]
            ELSE st

\* Lines 17-29 for one task. st = [times, changed].
earliestRescanStep(task, st) ==
    LET m == maxPredecessorFinish(task.dependencies, st.times, 0)
    IN  IF m > st.times[task.id].start
            THEN [times |-> [st.times EXCEPT ![task.id] =
                                [start |-> m, finish |-> m + task.duration]],
                  changed |-> TRUE]
            ELSE st

RECURSIVE earliestRescanFrom(_, _, _)
earliestRescanFrom(i, ts, st) ==
    IF i > Len(ts) THEN st
    ELSE CHOOSE out \in {earliestRescanFrom(i + 1, ts, next) :
                             next \in {earliestRescanStep(ts[i], st)}} : TRUE

\* One turn of the while loop of lines 14-31.
earliestRescanOf(ts, times) ==
    earliestRescanFrom(1, ts, [times |-> times, changed |-> FALSE])

\* maxDuration of lines 121-126: the largest finish, from 0.
maxDurationOf(times) ==
    MaxOf({0} \cup {times[id].finish : id \in DOMAIN times})

\* Mutant: the latest start is set to maxDuration as well.
initialLatestTimes_StartAtEnd(ts, projectDuration) ==
    [id \in DOMAIN TaskMapOf(ts) |->
        [finish |-> projectDuration, start |-> projectDuration]]

\* results[task.id] = { finish: maxDuration, start: maxDuration - duration },
\* lines 45-50.
initialLatestTimes(ts, projectDuration) ==
    [id \in DOMAIN TaskMapOf(ts) |->
        [finish |-> projectDuration,
         start |-> projectDuration - TaskMapOf(ts)[id].duration]]

\* taskOrder of lines 53-58: the tasks by descending earliest finish; the sort
\* is stable, so tasks of equal finish keep their input order.
taskOrderOf(ts, earliestTimes) ==
    LET before(i, j) ==
            \/ earliestTimes[ts[i].id].finish > earliestTimes[ts[j].id].finish
            \/ /\ earliestTimes[ts[i].id].finish = earliestTimes[ts[j].id].finish
               /\ i < j
        rank(i) == 1 + Cardinality({j \in DOMAIN ts : before(j, i)})
    IN  [k \in DOMAIN ts |-> ts[CHOOSE i \in DOMAIN ts : rank(i) = k]]

\* The loop over successors of lines 72-76.
RECURSIVE minSuccessorStart(_, _, _)
minSuccessorStart(succs, times, acc) ==
    IF succs = <<>> THEN acc
    ELSE minSuccessorStart(Tail(succs), times,
             IF times[Head(succs).id].start < acc
                 THEN times[Head(succs).id].start
                 ELSE acc)

\* Mutant: a successor start equal to the stored finish also counts as a change.
latestRescanStep_NotStrict(task, ts, st) ==
    LET succs == SelectSeq(ts, LAMBDA t : task.id \in Range(t.dependencies))
        newLatestFinish == minSuccessorStart(succs, st.times, MAX_SAFE_INTEGER)
    IN  IF Len(succs) > 0 /\ newLatestFinish <= st.times[task.id].finish
            THEN [times |-> [st.times EXCEPT ![task.id] =
                                [finish |-> newLatestFinish,
                                 start |-> newLatestFinish - task.duration]],
                  changed |-> TRUE]
            ELSE st

\* Lines 66-87 for one task of taskOrder. st = [times, changed].
latestRescanStep(task, ts, st) ==
    LET succs == SelectSeq(ts, LAMBDA t : task.id \in Range(t.dependencies))
        newLatestFinish == minSuccessorStart(succs, st.times, MAX_SAFE_INTEGER)
    IN  IF Len(succs) > 0 /\ newLatestFinish < st.times[task.id].finish
            THEN [times |-> [st.times EXCEPT ![task.id] =
                                [finish |-> newLatestFinish,
                                 start |-> newLatestFinish - task.duration]],
                  changed |-> TRUE]
            ELSE st

RECURSIVE latestRescanFrom(_, _, _, _)
latestRescanFrom(i, ordered, ts, st) ==
    IF i > Len(ordered) THEN st
    ELSE CHOOSE out \in {latestRescanFrom(i + 1, ordered, ts, next) :
                             next \in {latestRescanStep(ordered[i], ts, st)}} : TRUE

\* One turn of the while loop of lines 62-89.
latestRescanOf(ordered, ts, times) ==
    latestRescanFrom(1, ordered, ts, [times |-> times, changed |-> FALSE])

\* slack[taskId] = latestTimes[taskId].start - earliestTimes[taskId].start.
slackOf(earliestTimes, latestTimes) ==
    [taskId \in DOMAIN earliestTimes |->
        latestTimes[taskId].start - earliestTimes[taskId].start]

\* tasks.filter(task => slack[task.id] === 0).map(task => task.id)
criticalPathOf(ts, slack) ==
    LET critical == SelectSeq(ts, LAMBDA t : slack[t.id] = 0)
    IN  [k \in DOMAIN critical |-> critical[k].id]

\* What calculateCPM returns, lines 131-155.
CPMResultsOf(ts, earliestTimes, latestTimes, projectDuration) ==
    LET slack == slackOf(earliestTimes, latestTimes)
        criticalPath == criticalPathOf(ts, slack)
    IN  [isNull |-> FALSE,
         results |->
            [id \in DOMAIN TaskMapOf(ts) |->
                [taskId |-> id,
                 earliestStart |-> earliestTimes[id].start,
                 earliestFinish |-> earliestTimes[id].finish,
                 latestStart |-> latestTimes[id].start,
                 latestFinish |-> latestTimes[id].finish,
                 slack |-> slack[id],
                 isCritical |-> id \in Range(criticalPath)]],
         criticalPath |-> criticalPath,
         projectDuration |-> projectDuration]

(***************************************************************************)
(* The calculator page (routes/+page.svelte of cpm-app).                   *)
(***************************************************************************)
\* cpmResults = null
NoResults == [isNull |-> TRUE]

\* Mutant: the deleted id is left in the other tasks' dependencies.
DeleteTask_KeepDependencies(ts, taskId) == SelectSeq(ts, LAMBDA t : t.id # taskId)

\* tasks.filter + tasks.map of handleDeleteTask.
DeleteTask(ts, taskId) ==
    LET kept == SelectSeq(ts, LAMBDA t : t.id # taskId)
    IN  [i \in DOMAIN kept |->
            [kept[i] EXCEPT !.dependencies = SelectSeq(@, LAMBDA d : d # taskId)]]

\* The ids of a generated project and the dependencies lists drawn for it.
\* taskToEdit = null
NoTask == [isNull |-> TRUE]

\* The page as it is created, with its TaskForm: lines 193-197 of the page and
\* lines 11-14 of the form.
FormIdle ==
    /\ taskToEdit = NoTask
    /\ taskDependencies = <<>>
    /\ activeTab = "form"
    /\ uuids = 0
    /\ changesLeft = 0

\* No call of the rescanning calculateCPM has been made.
RescanIdle ==
    /\ pc = "idle"
    /\ earliest = <<>>
    /\ latest = <<>>
    /\ taskOrder = <<>>
    /\ maxDuration = 0
    /\ rescanResults = NoResults

GenIds == {TaskIds[i] : i \in 1..MaxTasks}

AllIds == TaskIds \o <<MissingId>>

\* The ids of S as a list, in the order of AllIds.
ListOf(S) == SelectSeq(AllIds, LAMBDA id : id \in S)

\* The subsets of S of at most k elements.
RECURSIVE SubsetsUpTo(_, _)
SubsetsUpTo(S, k) ==
    IF k = 0 \/ S = {} THEN {{}}
    ELSE LET x == CHOOSE y \in S : TRUE
             rest == S \ {x}
         IN  SubsetsUpTo(rest, k) \cup {T \cup {x} : T \in SubsetsUpTo(rest, k - 1)}

\* The dependencies entries of a generated project: <<t, d>> puts d in the
\* dependencies of task t (itself, another task, or no task at all).
EdgeSets == SubsetsUpTo(GenIds \X (GenIds \cup {MissingId}), MaxEdges)

\* The generated project of durations dur and dependencies entries E.
GeneratedTasks(dur, E) ==
    [i \in 1..MaxTasks |->
        [id |-> TaskIds[i], duration |-> dur[i],
         dependencies |-> ListOf({d \in GenIds \cup {MissingId} : <<TaskIds[i], d>> \in E})]]

\* The six-task project of the specification's concrete scenario.
ScenarioTasks ==
    << [id |-> "A", duration |-> 3, dependencies |-> <<>>],
       [id |-> "B", duration |-> 2, dependencies |-> <<"A">>],
       [id |-> "C", duration |-> 4, dependencies |-> <<"A">>],
       [id |-> "D", duration |-> 2, dependencies |-> <<"B", "C">>],
       [id |-> "E", duration |-> 3, dependencies |-> <<"C">>],
       [id |-> "F", duration |-> 1, dependencies |-> <<"D", "E">>] >>

\* A fork-join: A, then B and C side by side, then D; d lists the durations.
ForkJoinTasks(d) ==
    << [id |-> "A", duration |-> d[1], dependencies |-> <<>>],
       [id |-> "B", duration |-> d[2], dependencies |-> <<"A">>],
       [id |-> "C", duration |-> d[3], dependencies |-> <<"A">>],
       [id |-> "D", duration |-> d[4], dependencies |-> <<"B", "C">>] >>

\* The durations of the generated fork-joins.
ForkJoinDurations == [1..4 -> 0..(MaxDur + 1)]

\* testTasks of the test-graph page.
testTasks == ForkJoinTasks(<<5, 3, 7, 2>>)

\* testCpmResults of the test-graph page (projectId left out).
testCpmResults ==
    [projectDuration |-> 14,
     criticalPath |-> <<"A", "C", "D">>,
     taskResults |->
        [id \in {"A", "B", "C", "D"} |->
            CASE id = "A" -> [taskId |-> "A", earliestStart |-> 0, earliestFinish |-> 5,
                              latestStart |-> 0, latestFinish |-> 5,
                              slack |-> 0, isCritical |-> TRUE]
              [] id = "B" -> [taskId |-> "B", earliestStart |-> 5, earliestFinish |-> 8,
                              latestStart |-> 9, latestFinish |-> 12,
                              slack |-> 4, isCritical |-> FALSE]
              [] id = "C" -> [taskId |-> "C", earliestStart |-> 5, earliestFinish |-> 12,
                              latestStart |-> 5, latestFinish |-> 12,
                              slack |-> 0, isCritical |-> TRUE]
              [] id = "D" -> [taskId |-> "D", earliestStart |-> 12, earliestFinish |-> 14,
                              latestStart |-> 12, latestFinish |-> 14,
                              slack |-> 0, isCritical |-> TRUE]]]

\* Tasks without dependencies, of the listed durations.
IndependentTasks(durs) ==
    [i \in DOMAIN durs |->
        [id |-> TaskIds[i], duration |-> durs[i], dependencies |-> <<>>]]

\* The projects of the specification's scenarios and of the test-graph page.
ExampleTasks ==
    {ScenarioTasks, testTasks, IndependentTasks(<<5>>), IndependentTasks(<<3, 7>>)}

\* The task lists the model starts from.
InitialTasks(ts) ==
    \/ \E dur \in [1..MaxTasks -> 0..MaxDur], E \in EdgeSets :
           ts = GeneratedTasks(dur, E)
    \/ \E d \in ForkJoinDurations : ts = ForkJoinTasks(d)
    \/ ts \in ExampleTasks

Init ==
    /\ InitialTasks(tasks)
    /\ cpmResults = NoResults
    /\ callStatus = "none"
    /\ project = <<>>
    /\ cpmResult = NoResults
    /\ projectPaths = NoResults
    /\ RescanIdle
    /\ FormIdle

\* The try/catch of calculateCPMResults around what calculateCPM returned or
\* threw, lines 207-217: a
\* schedule is stored and the results tab shown, which takes the TaskForm off
\* the page; an error leaves everything as it was.
calculateCPMResultsOn(returned) ==
    /\ callStatus' = IF returned.thrown = "none" THEN "returned" ELSE returned.thrown
    /\ cpmResults' = IF returned.thrown = "none" THEN returned.value ELSE cpmResults
    /\ activeTab' = IF returned.thrown = "none" THEN "table" ELSE activeTab
    /\ taskDependencies' = IF returned.thrown = "none" THEN <<>> ELSE taskDependencies

\* calculateCPMResults: the alert branches leave cpmResults as it was.
calculateCPMResults ==
    /\ Len(tasks) > 0
    /\ \E returned \in {calculateCPM(tasks)} : calculateCPMResultsOn(returned)
    /\ UNCHANGED <<tasks, taskToEdit, uuids, changesLeft>>
    /\ UNCHANGED calculatorVars
    /\ UNCHANGED rescanVars

\* handleDeleteTask for the task of id taskId; taskToEdit and the form stay.
deleteTask(taskId) ==
    /\ tasks' = DeleteTask(tasks, taskId)
    /\ cpmResults' = NoResults
    /\ callStatus' = "none"
    /\ UNCHANGED formVars
    /\ UNCHANGED calculatorVars
    /\ UNCHANGED rescanVars

handleDeleteTask ==
    \E i \in DOMAIN tasks : deleteTask(tasks[i].id)

Next ==
    \/ calculateCPMResults
    \/ handleDeleteTask

Spec == Init /\ [][Next]_vars

(***************************************************************************)
(* The calculator page with its TaskForm, DependencySelector and TaskList, *)
(* from the empty task list it is created with.                            *)
(***************************************************************************)
\* How many times tasks are added, updated and deleted on the page.
MaxChanges == 3
\* The same, where the page is followed for what it does to cpmResults.
MaxResultChanges == 2

\* The rows of a list of n rows on the page that are clicked: the first and
\* the last one.
ClickRows(n) == {i \in 1..n : i = 1 \/ i = n}

\* The sample project of loadSampleData, lines 243-293.
SampleTasks ==
    << [id |-> "task-1", duration |-> 5, dependencies |-> <<>>],
       [id |-> "task-2", duration |-> 10, dependencies |-> <<"task-1">>],
       [id |-> "task-3", duration |-> 15, dependencies |-> <<"task-2">>],
       [id |-> "task-4", duration |-> 7, dependencies |-> <<"task-3">>],
       [id |-> "task-5", duration |-> 8, dependencies |-> <<"task-2">>],
       [id |-> "task-6", duration |-> 3, dependencies |-> <<"task-4", "task-5">>],
       [id |-> "task-7", duration |-> 5, dependencies |-> <<"task-6">>] >>

\* tasks.find(task => task.id === taskId) || null
findTask(ts, taskId) ==
    IF \E i \in DOMAIN ts : ts[i].id = taskId
        THEN [isNull |-> FALSE,
              task |-> ts[CHOOSE i \in DOMAIN ts :
                             /\ ts[i].id = taskId
                             /\ \A j \in 1..(i - 1) : ts[j].id # taskId]]
        ELSE NoTask

\* currentTaskId={editTask?.id || null}, with "" for null.
currentTaskIdOf(editTask) == IF editTask.isNull THEN "" ELSE editTask.task.id

\* hasCycle inside isTaskSelectable, lines 60-70: [cycle, visited].
RECURSIVE hasCycle(_, _, _, _), someHasCycle(_, _, _, _)
hasCycle(taskId, currentTaskId, ts, visited) ==
    IF taskId = currentTaskId THEN [cycle |-> TRUE, visited |-> visited]
    ELSE IF taskId \in visited THEN [cycle |-> FALSE, visited |-> visited]
    ELSE LET taskToCheck == findTask(ts, taskId)
         IN  IF taskToCheck.isNull
                 THEN [cycle |-> FALSE, visited |-> visited \cup {taskId}]
                 ELSE someHasCycle(taskToCheck.task.dependencies, currentTaskId, ts,
                                   visited \cup {taskId})

\* taskToCheck.dependencies.some(depId => hasCycle(depId))
someHasCycle(deps, currentTaskId, ts, visited) ==
    IF deps = <<>> THEN [cycle |-> FALSE, visited |-> visited]
    ELSE \* the first dependency decides, or the rest is tried with what it visited
         CHOOSE out \in {IF first.cycle THEN first
                         ELSE someHasCycle(Tail(deps), currentTaskId, ts, first.visited) :
                            first \in {hasCycle(Head(deps), currentTaskId, ts, visited)}} : TRUE

\* isTaskSelectable, lines 49-73 (the selected dependencies play no part).
isTaskSelectable(task, currentTaskId, ts) ==
    IF currentTaskId = "" THEN TRUE
    ELSE IF task.id = currentTaskId THEN FALSE
    ELSE ~hasCycle(task.id, currentTaskId, ts, {}).cycle

\* filterAvailableTasks, lines 33-46, with allowCircular false.
filterAvailableTasks(ts, currentTaskId) ==
    IF currentTaskId = "" THEN ts
    ELSE SelectSeq(SelectSeq(ts, LAMBDA t : t.id # currentTaskId),
                   LAMBDA t : isTaskSelectable(t, currentTaskId, ts))

\* The tasks the selector shows a checkbox for, lines 79-97.
checkboxTasks(ts, currentTaskId) ==
    IF Len(ts) = 0 \/ (currentTaskId # "" /\ Len(ts) = 1) THEN <<>>
    ELSE SelectSeq(filterAvailableTasks(ts, currentTaskId),
                   LAMBDA t : t.id # currentTaskId)

\* toggleDependency, lines 23-30.
toggleDependency(selectedDependencies, taskId) ==
    IF taskId \in Range(selectedDependencies)
        THEN SelectSeq(selectedDependencies, LAMBDA id : id # taskId)
        ELSE Append(selectedDependencies, taskId)

\* tasks.map(t => (t.id === task.id ? task : t))
UpdateTask(ts, task) ==
    [i \in DOMAIN ts |-> IF ts[i].id = task.id THEN task ELSE ts[i]]

\* What calculateCPM makes of the sample project.
SampleSchedule == calculateCPM(SampleTasks)

\* taskDependencies of a TaskForm put on the page for editTask: [] at first,
\* then the reactive block of lines 23-28.
formDependenciesOf(editTask) ==
    IF editTask.isNull THEN <<>> ELSE editTask.task.dependencies

PageInit ==
    /\ tasks = <<>>
    /\ cpmResults = NoResults
    /\ callStatus = "none"
    /\ project = <<>>
    /\ cpmResult = NoResults
    /\ projectPaths = NoResults
    /\ RescanIdle
    /\ taskToEdit = NoTask
    /\ taskDependencies = <<>>
    /\ activeTab = "form"
    /\ uuids = 0
    /\ changesLeft = MaxChanges

\* A click on a checkbox of the DependencySelector: toggleDependency, then
\* handleDependenciesChange of the form.
dependencyClicked ==
    /\ activeTab = "form"
    /\ \E shown \in {checkboxTasks(tasks, currentTaskIdOf(taskToEdit))} :
           \E i \in ClickRows(Len(shown)) :
               taskDependencies' = toggleDependency(taskDependencies, shown[i].id)
    /\ UNCHANGED <<taskToEdit, activeTab, uuids, changesLeft>>
    /\ UNCHANGED <<pageVars, calculatorVars, rescanVars>>

\* handleSubmit of the form in add mode (a name typed, a duration above 0
\* typed), then handleAddTask of the page, then resetForm.
handleAddTask ==
    /\ activeTab = "form"
    /\ taskToEdit = NoTask
    /\ changesLeft > 0
    /\ \E taskDuration \in 1..MaxDur :
           tasks' = Append(tasks, [id |-> TaskIds[uuids + 1],
                                   duration |-> taskDuration,
                                   dependencies |-> taskDependencies])
    /\ uuids' = uuids + 1
    /\ changesLeft' = changesLeft - 1
    /\ cpmResults' = NoResults
    /\ callStatus' = "none"
    /\ taskDependencies' = <<>>
    /\ UNCHANGED <<taskToEdit, activeTab>>
    /\ UNCHANGED <<calculatorVars, rescanVars>>

\* Mutant: handleUpdateTask leaves cpmResults as it was.
handleUpdateTask_KeepsResults ==
    /\ activeTab = "form"
    /\ taskToEdit # NoTask
    /\ changesLeft > 0
    /\ changesLeft' = changesLeft - 1
    /\ tasks' = UpdateTask(tasks, [id |-> taskToEdit.task.id,
                                   duration |-> taskToEdit.task.duration,
                                   dependencies |-> taskDependencies])
    /\ taskToEdit' = NoTask
    /\ taskDependencies' = <<>>
    /\ UNCHANGED <<cpmResults, callStatus, activeTab, uuids>>
    /\ UNCHANGED <<calculatorVars, rescanVars>>

\* handleSubmit of the form in edit mode (name and duration as the reactive
\* block set them), then handleUpdateTask of the page, then resetForm.
handleUpdateTask ==
    /\ activeTab = "form"
    /\ taskToEdit # NoTask
    /\ changesLeft > 0
    /\ changesLeft' = changesLeft - 1
    /\ tasks' = UpdateTask(tasks, [id |-> taskToEdit.task.id,
                                   duration |-> taskToEdit.task.duration,
                                   dependencies |-> taskDependencies])
    /\ taskToEdit' = NoTask
    /\ cpmResults' = NoResults
    /\ callStatus' = "none"
    /\ taskDependencies' = <<>>
    /\ UNCHANGED <<activeTab, uuids>>
    /\ UNCHANGED <<calculatorVars, rescanVars>>

\* handleCancel of the form (resetForm), then handleCancelEdit of the page.
handleCancelEdit ==
    /\ activeTab = "form"
    /\ taskToEdit' = NoTask
    /\ taskDependencies' = <<>>
    /\ UNCHANGED <<activeTab, uuids, changesLeft>>
    /\ UNCHANGED <<pageVars, calculatorVars, rescanVars>>

\* The edit button of a row of the TaskList: handleEditTask, and the form's
\* reactive block for the new editTask.
handleEditTask ==
    /\ activeTab = "form"
    /\ \E i \in ClickRows(Len(tasks)) :
           \E found \in {findTask(tasks, tasks[i].id)} :
               /\ taskToEdit' = found
               /\ taskDependencies' = formDependenciesOf(found)
    /\ UNCHANGED <<activeTab, uuids, changesLeft>>
    /\ UNCHANGED <<pageVars, calculatorVars, rescanVars>>

\* The delete button of a row of the TaskList, confirmed.
deleteClicked ==
    /\ activeTab = "form"
    /\ changesLeft > 0
    /\ \E i \in ClickRows(Len(tasks)) :
           /\ tasks' = DeleteTask(tasks, tasks[i].id)
           /\ cpmResults' = NoResults
           /\ callStatus' = "none"
    /\ changesLeft' = changesLeft - 1
    /\ UNCHANGED <<taskToEdit, taskDependencies, activeTab, uuids>>
    /\ UNCHANGED <<calculatorVars, rescanVars>>

\* loadSampleData, confirmed where it asks: the sample tasks, then
\* calculateCPMResults on them.
loadSampleData ==
    /\ tasks' = SampleTasks
    /\ calculateCPMResultsOn(SampleSchedule)
    /\ UNCHANGED <<taskToEdit, uuids, changesLeft>>
    /\ UNCHANGED <<calculatorVars, rescanVars>>

\* resetProject, confirmed where it asks.  A TaskForm put on the page by the
\* tab change starts from taskToEdit.
resetProject ==
    /\ tasks' = <<>>
    /\ cpmResults' = NoResults
    /\ callStatus' = "none"
    /\ activeTab' = "form"
    /\ taskDependencies' = IF activeTab = "form" THEN taskDependencies
                                                 ELSE formDependenciesOf(taskToEdit)
    /\ UNCHANGED <<taskToEdit, uuids, changesLeft>>
    /\ UNCHANGED <<calculatorVars, rescanVars>>

\* A click on a tab button; the two results tabs are disabled without results.
\* Leaving the Tasks tab takes the TaskForm off the page, coming back puts a
\* new one on it.
tabClicked ==
    /\ \E tab \in {"form", "table", "graph"} :
           /\ tab # activeTab
           /\ tab = "form" \/ cpmResults # NoResults
           /\ activeTab' = tab
           /\ taskDependencies' = IF tab = "form" THEN formDependenciesOf(taskToEdit)
                                                  ELSE <<>>
    /\ UNCHANGED <<taskToEdit, uuids, changesLeft>>
    /\ UNCHANGED <<pageVars, calculatorVars, rescanVars>>

PageNext ==
    \/ dependencyClicked
    \/ handleAddTask
    \/ handleUpdateTask
    \/ handleCancelEdit
    \/ handleEditTask
    \/ deleteClicked
    \/ loadSampleData
    \/ resetProject
    \/ calculateCPMResults
    \/ tabClicked

PageSpec == PageInit /\ [][PageNext]_vars

\* The page with fewer changes of the task list.
ResultsInit ==
    /\ tasks = <<>>
    /\ cpmResults = NoResults
    /\ callStatus = "none"
    /\ project = <<>>
    /\ cpmResult = NoResults
    /\ projectPaths = NoResults
    /\ RescanIdle
    /\ taskToEdit = NoTask
    /\ taskDependencies = <<>>
    /\ activeTab = "form"
    /\ uuids = 0
    /\ changesLeft = MaxResultChanges

ResultsSpec == ResultsInit /\ [][PageNext]_vars

\* The form and the list alone: no sample project, no new project, no
\* calculation and no tab change.
FormNext ==
    \/ dependencyClicked
    \/ handleAddTask
    \/ handleUpdateTask
    \/ handleCancelEdit
    \/ handleEditTask
    \/ deleteClicked

FormSpec == PageInit /\ [][FormNext]_vars


(***************************************************************************)
(* The dependency graph of a task list, stated without the engine.         *)
(***************************************************************************)
IdsOf(ts) == {ts[i].id : i \in DOMAIN ts}

\* id -> the set of ids in the dependencies of the task of that id (ids are unique).
DependencySets(ts) ==
    [id \in IdsOf(ts) |-> Range(ts[CHOOSE i \in DOMAIN ts : ts[i].id = id].dependencies)]

\* The tasks of S left after removing, again and again, every task none of whose
\* dependencies is still in S: the tasks on a cycle or depending on one.
RECURSIVE Unschedulable(_, _)
Unschedulable(S, deps) ==
    LET free == {id \in S : deps[id] \cap S = {}}
    IN  IF free = {} THEN S ELSE Unschedulable(S \ free, deps)

\* The dependency graph has a cycle: some tasks can never be scheduled.
HasCycle(ts) == Unschedulable(IdsOf(ts), DependencySets(ts)) # {}

\* Some dependencies entry names no supplied task.
HasDangling(ts) ==
    \E i \in DOMAIN ts : \E d \in Range(ts[i].dependencies) : d \notin IdsOf(ts)

\* The task list with the entries that name no supplied task removed.
WithoutDangling(ts) ==
    [i \in DOMAIN ts |->
        [ts[i] EXCEPT !.dependencies = SelectSeq(@, LAMBDA d : d \in IdsOf(ts))]]

\* The duration and the set of dependency ids of the task of an id (ids are unique).
DurationOf(ts, id) == ts[CHOOSE i \in DOMAIN ts : ts[i].id = id].duration

DependenciesOf(ts, id) == Range(ts[CHOOSE i \in DOMAIN ts : ts[i].id = id].dependencies)

PathDuration(ts, path) == SumSeq([k \in DOMAIN path |-> DurationOf(ts, path[k])])

Returned == callStatus = "returned"

Called == callStatus # "none"

(***************************************************************************)
(* Calls of src/lib/utils/cpmCalculator.ts on a project.  tasks keeps the  *)
(* task list the project was made from.                                    *)
(***************************************************************************)
\* The project of a task list: an activity's predecessors are the task's
\* dependencies, and its schedule fields hold no schedule yet.
ProjectOf(ts) ==
    [i \in DOMAIN ts |->
        [id |-> ts[i].id, duration |-> ts[i].duration,
         predecessors |-> ts[i].dependencies,
         earliestStart |-> 0, earliestFinish |-> 0,
         latestStart |-> 0, latestFinish |-> 0,
         slack |-> 0, isCritical |-> FALSE]]

CalculatorInit ==
    /\ InitialTasks(tasks)
    /\ cpmResults = NoResults
    /\ callStatus = "none"
    /\ project = ProjectOf(tasks)
    /\ cpmResult = NoResults
    /\ projectPaths = NoResults
    /\ RescanIdle
    /\ FormIdle

\* cpmResult = calculateCPM(project)
CallCalculateCPM ==
    /\ \E r \in {cpmCalculator_calculateCPM(project)} :
           /\ cpmResult' = r.value
           /\ project' = r.activities
    /\ UNCHANGED <<projectPaths, pageVars>>
    /\ UNCHANGED rescanVars
    /\ UNCHANGED formVars

\* projectPaths.paths = findAllPaths(project), on a project without a cycle (on a
\* cycle that a start activity reaches the recursion of findPaths has no end).
CallFindAllPaths ==
    /\ ~HasCycle(tasks)
    /\ projectPaths' = [isNull |-> FALSE, paths |-> findAllPaths(project)]
    /\ UNCHANGED <<project, cpmResult, pageVars>>
    /\ UNCHANGED rescanVars
    /\ UNCHANGED formVars

CalculatorNext ==
    \/ CallCalculateCPM
    \/ CallFindAllPaths

CalculatorSpec == CalculatorInit /\ [][CalculatorNext]_vars

(***************************************************************************)
(* The calculation alone, on the task lists it returns a schedule for: no  *)
(* cycle and no dependencies entry without a task.                         *)
(***************************************************************************)
OrderInit ==
    /\ InitialTasks(tasks)
    /\ ~HasCycle(tasks)
    /\ ~HasDangling(tasks)
    /\ cpmResults = NoResults
    /\ callStatus = "none"
    /\ project = <<>>
    /\ cpmResult = NoResults
    /\ projectPaths = NoResults
    /\ RescanIdle
    /\ FormIdle

OrderNext == calculateCPMResults

OrderSpec == OrderInit /\ [][OrderNext]_vars

(***************************************************************************)
(* A call of the rescanning calculateCPM (src/lib/utils/cpm.ts) from       *)
(* calculateProject of routes/+page.svelte, one step per turn of its two   *)
(* while loops.  tasks is the page's project.tasks.                        *)
(***************************************************************************)
RescanInit ==
    /\ InitialTasks(tasks)
    /\ cpmResults = NoResults
    /\ callStatus = "none"
    /\ project = <<>>
    /\ cpmResult = NoResults
    /\ projectPaths = NoResults
    /\ RescanIdle
    /\ FormIdle

\* The sum of all durations: no earliest start of a schedule is above it, so a
\* start above it is one that keeps growing round a cycle.  The first loop is
\* followed up to there.
RescanCap(ts) == SumSeq([i \in DOMAIN ts |-> ts[i].duration])

\* calculateProject up to the first loop of calculateEarliestTimes.
calculateProject ==
    /\ pc \in {"idle", "done"}
    /\ Len(tasks) > 0
    /\ pc' = "earliest"
    /\ earliest' = initialEarliestTimes(tasks)
    /\ latest' = <<>>
    /\ taskOrder' = <<>>
    /\ maxDuration' = 0
    /\ UNCHANGED rescanResults
    /\ UNCHANGED <<pageVars, calculatorVars>>
    /\ UNCHANGED formVars

\* One turn of the loop of calculateEarliestTimes; the turn that changes
\* nothing leaves the loop and runs up to the loop of calculateLatestTimes.
earliestRescan ==
    /\ pc = "earliest"
    /\ \A id \in DOMAIN earliest : earliest[id].start <= RescanCap(tasks)
    /\ \E st \in {earliestRescanOf(tasks, earliest)} :
           IF st.changed
               THEN /\ earliest' = st.times
                    /\ UNCHANGED <<pc, latest, taskOrder, maxDuration>>
               ELSE \E longest \in {maxDurationOf(earliest)} :
                    \E times \in {initialLatestTimes(tasks, longest)} :
                    \E ordered \in {taskOrderOf(tasks, earliest)} :
                        /\ pc' = "latest"
                        /\ maxDuration' = longest
                        /\ latest' = times
                        /\ taskOrder' = ordered
                        /\ UNCHANGED earliest
    /\ UNCHANGED rescanResults
    /\ UNCHANGED <<pageVars, calculatorVars>>
    /\ UNCHANGED formVars

\* One turn of the loop of calculateLatestTimes; the turn that changes nothing
\* leaves the loop, and the call returns to calculateProject.
latestRescan ==
    /\ pc = "latest"
    /\ \E st \in {latestRescanOf(taskOrder, tasks, latest)} :
           IF st.changed
               THEN /\ latest' = st.times
                    /\ UNCHANGED <<pc, rescanResults>>
               ELSE \E returned \in {CPMResultsOf(tasks, earliest, latest, maxDuration)} :
                        /\ pc' = "done"
                        /\ rescanResults' = returned
                        /\ UNCHANGED latest
    /\ UNCHANGED <<earliest, taskOrder, maxDuration>>
    /\ UNCHANGED <<pageVars, calculatorVars>>
    /\ UNCHANGED formVars

RescanNext ==
    \/ calculateProject
    \/ earliestRescan
    \/ latestRescan

RescanSpec == RescanInit /\ [][RescanNext]_vars

\* The lists the runs to completion are followed on: every task is either
\* without duration or of the longest duration.
RescanFairInit ==
    /\ \E dur \in [1..MaxTasks -> {0, MaxDur}], E \in EdgeSets :
           tasks = GeneratedTasks(dur, E)
    /\ cpmResults = NoResults
    /\ callStatus = "none"
    /\ project = <<>>
    /\ cpmResult = NoResults
    /\ projectPaths = NoResults
    /\ RescanIdle
    /\ FormIdle

\* The call runs on one thread without interruption: a loop that can take
\* another turn takes it.
RescanFairSpec ==
    /\ RescanFairInit
    /\ [][RescanNext]_vars
    /\ WF_vars(earliestRescan)
    /\ WF_vars(latestRescan)

(***************************************************************************)
(* Claims.                                                                 *)
(***************************************************************************)
\* C1: for an acyclic task list whose dependency ids all name a supplied task,
\* calculateCPM returns, and its projectDuration is the largest sum of durations
\* over the paths findAllPaths enumerates from a task with no dependencies to a
\* task with no successors.
C1_DurationIsLongestPath ==
    (Called /\ ~HasCycle(tasks) /\ ~HasDangling(tasks)) =>
        /\ Returned
        /\ LET paths == findAllPaths(ActivitiesOf(tasks))
           IN  /\ Len(paths) > 0
               /\ cpmResults.projectDuration =
                      MaxOf({PathDuration(tasks, paths[k]) : k \in DOMAIN paths})

\* A returned schedule of a project with two paths of different duration.
C1_Witness ==
    /\ Returned
    /\ ~HasCycle(tasks)
    /\ LET paths == findAllPaths(ActivitiesOf(tasks))
       IN  \E j \in DOMAIN paths, k \in DOMAIN paths :
               /\ Len(paths[j]) > 1
               /\ PathDuration(tasks, paths[j]) < PathDuration(tasks, paths[k])

\* C2: on a task list whose dependency graph has a cycle (a task that lists
\* itself included), calculateCPM throws the cycle error and the caller gets no
\* schedule, wherever the cycle's tasks stand in the input.
C2_CycleFails ==
    (Called /\ HasCycle(tasks)) =>
        /\ callStatus = "CycleError"
        /\ cpmResults = NoResults

\* A call on a cycle of two or more tasks; the first input task is neither on a
\* cycle nor depends on one, so the cycle is met from a later task.
C2_Witness ==
    /\ callStatus = "CycleError"
    /\ Len(tasks) > 2
    /\ tasks[1].id \notin Unschedulable(IdsOf(tasks), DependencySets(tasks))
    /\ \A i \in DOMAIN tasks : tasks[i].id \notin Range(tasks[i].dependencies)

\* C3: in a returned schedule (a non-empty acyclic task list, durations >= 0)
\* every task has slack >= 0 and some task has slack 0.
C3_SlackNonNegative ==
    Returned =>
        /\ \A id \in IdsOf(tasks) : cpmResults.taskResults[id].slack >= 0
        /\ \E id \in IdsOf(tasks) : cpmResults.taskResults[id].slack = 0

\* A returned schedule with a task of positive slack.
C3_Witness ==
    /\ Returned
    /\ \E id \in IdsOf(tasks) : cpmResults.taskResults[id].slack > 0

\* C4: with a dependencies entry that names no supplied task (and no cycle),
\* calculateCPM does not fail and returns what it returns for the same task
\* list without the unmatched entries.
C4_DanglingIgnored ==
    (Called /\ HasDangling(tasks) /\ ~HasCycle(tasks)) =>
        /\ Returned
        /\ cpmResults = calculateCPM(WithoutDangling(tasks)).value

\* C5: the six-task scenario: projectDuration 11, criticalPath {A, C, E, F},
\* slack 2 for B and for D, ES/EF of A 0/3, C 3/7, E 7/10, F 10/11.
C5_Scenario ==
    (Called /\ tasks = ScenarioTasks) =>
        /\ Returned
        /\ cpmResults.projectDuration = 11
        /\ Range(cpmResults.criticalPath) = {"A", "C", "E", "F"}
        /\ cpmResults.taskResults["B"].slack = 2
        /\ cpmResults.taskResults["D"].slack = 2
        /\ cpmResults.taskResults["A"].earliestStart = 0
        /\ cpmResults.taskResults["A"].earliestFinish = 3
        /\ cpmResults.taskResults["C"].earliestStart = 3
        /\ cpmResults.taskResults["C"].earliestFinish = 7
        /\ cpmResults.taskResults["E"].earliestStart = 7
        /\ cpmResults.taskResults["E"].earliestFinish = 10
        /\ cpmResults.taskResults["F"].earliestStart = 10
        /\ cpmResults.taskResults["F"].earliestFinish = 11

\* C5 as amended: as C5, with slack 3 for B and slack 1 for D.
C5_ScenarioAmended ==
    (Called /\ tasks = ScenarioTasks) =>
        /\ Returned
        /\ cpmResults.projectDuration = 11
        /\ Range(cpmResults.criticalPath) = {"A", "C", "E", "F"}
        /\ cpmResults.taskResults["B"].slack = 3
        /\ cpmResults.taskResults["D"].slack = 1
        /\ cpmResults.taskResults["A"].earliestStart = 0
        /\ cpmResults.taskResults["A"].earliestFinish = 3
        /\ cpmResults.taskResults["C"].earliestStart = 3
        /\ cpmResults.taskResults["C"].earliestFinish = 7
        /\ cpmResults.taskResults["E"].earliestStart = 7
        /\ cpmResults.taskResults["E"].earliestFinish = 10
        /\ cpmResults.taskResults["F"].earliestStart = 10
        /\ cpmResults.taskResults["F"].earliestFinish = 11

\* The schedule of the scenario has been computed.
C5_Witness ==
    /\ Returned
    /\ tasks = ScenarioTasks

\* C6: for a returned schedule and a task T of positive slack in it, calling
\* calculateCPM on the task list handleDeleteTask leaves for T returns the same
\* projectDuration, and every remaining task that had slack 0 still has slack 0.
C6_RemoveNonCritical ==
    Returned =>
        \A T \in IdsOf(tasks) :
            cpmResults.taskResults[T].slack > 0 =>
                LET again == calculateCPM(DeleteTask(tasks, T))
                IN  /\ again.thrown = "none"
                    /\ again.value.projectDuration = cpmResults.projectDuration
                    /\ \A id \in IdsOf(tasks) \ {T} :
                           cpmResults.taskResults[id].slack = 0 =>
                               again.value.taskResults[id].slack = 0

\* A returned schedule with a task of positive slack that has a dependency and
\* a successor, and a critical task among its successors.
C6_Witness ==
    /\ Returned
    /\ \E T \in IdsOf(tasks), S \in IdsOf(tasks) :
           /\ cpmResults.taskResults[T].slack > 0
           /\ DependenciesOf(tasks, T) # {}
           /\ T \in DependenciesOf(tasks, S)
           /\ cpmResults.taskResults[S].slack = 0

\* C7: in a returned schedule every task has earliestFinish = earliestStart +
\* duration and latestFinish = latestStart + duration.
C7_FinishIsStartPlusDuration ==
    Returned =>
        \A id \in IdsOf(tasks) :
            LET r == cpmResults.taskResults[id]
            IN  /\ r.earliestFinish = r.earliestStart + DurationOf(tasks, id)
                /\ r.latestFinish = r.latestStart + DurationOf(tasks, id)

\* A returned schedule with a task that starts late and has a duration.
C7_Witness ==
    /\ Returned
    /\ \E id \in IdsOf(tasks) :
           /\ cpmResults.taskResults[id].earliestStart > 0
           /\ cpmResults.taskResults[id].latestStart > cpmResults.taskResults[id].earliestStart
           /\ DurationOf(tasks, id) > 0

\* C8: in a returned schedule every task with an empty dependencies list has
\* earliestStart 0, and every task no other task names has latestFinish =
\* projectDuration.
C8_SourcesAndSinks ==
    Returned =>
        \A id \in IdsOf(tasks) :
            /\ DependenciesOf(tasks, id) = {} =>
                   cpmResults.taskResults[id].earliestStart = 0
            /\ (\A other \in IdsOf(tasks) : id \notin DependenciesOf(tasks, other)) =>
                   cpmResults.taskResults[id].latestFinish = cpmResults.projectDuration

\* A returned schedule whose sink finishes early and whose source is not a sink.
C8_Witness ==
    /\ Returned
    /\ \E id \in IdsOf(tasks) :
           /\ \A other \in IdsOf(tasks) : id \notin DependenciesOf(tasks, other)
           /\ cpmResults.taskResults[id].earliestFinish < cpmResults.projectDuration
    /\ \E id \in IdsOf(tasks) :
           /\ DependenciesOf(tasks, id) = {}
           /\ \E other \in IdsOf(tasks) : id \in DependenciesOf(tasks, other)

\* C9: in a returned schedule isCritical is true exactly when slack = 0, and
\* criticalPath lists exactly the ids of the tasks with slack 0, each once.
C9_CriticalIsZeroSlack ==
    Returned =>
        /\ \A id \in IdsOf(tasks) :
               cpmResults.taskResults[id].isCritical <=>
                   (cpmResults.taskResults[id].slack = 0)
        /\ Range(cpmResults.criticalPath) =
               {id \in IdsOf(tasks) : cpmResults.taskResults[id].slack = 0}
        /\ \A j \in DOMAIN cpmResults.criticalPath, k \in DOMAIN cpmResults.criticalPath :
               cpmResults.criticalPath[j] = cpmResults.criticalPath[k] => j = k

\* A returned schedule with critical and non-critical tasks.
C9_Witness ==
    /\ Returned
    /\ Len(cpmResults.criticalPath) > 1
    /\ Len(cpmResults.criticalPath) < Len(tasks)

\* C10: in a returned schedule projectDuration is the largest earliestFinish and
\* the largest latestFinish over the tasks.
C10_DurationIsMaxFinish ==
    Returned =>
        /\ cpmResults.projectDuration =
               MaxOf({cpmResults.taskResults[id].earliestFinish : id \in IdsOf(tasks)})
        /\ cpmResults.projectDuration =
               MaxOf({cpmResults.taskResults[id].latestFinish : id \in IdsOf(tasks)})

\* A returned schedule in which some task must finish before the project does.
C10_Witness ==
    /\ Returned
    /\ \E id \in IdsOf(tasks) :
           cpmResults.taskResults[id].latestFinish < cpmResults.projectDuration

\* C11: a call of calculateCPM leaves its input as it was: after calculateCPM
\* of cpmCalculator.ts has returned, the caller's project.activities hold the
\* same activities, in the same order and with the same fields, as before.
C11_InputUnchanged ==
    cpmResult # NoResults => project = ProjectOf(tasks)

\* The ways to put n things in another order.
OrdersOf(n) == {g \in [1..n -> 1..n] : {g[i] : i \in 1..n} = 1..n}

\* The list s in the order f.
Permuted(s, f) == [i \in DOMAIN s |-> s[f[i]]]

\* The orderings of a list.
Perms(s) == {Permuted(s, f) : f \in OrdersOf(Len(s))}

\* The task lists that differ from ts in the order inside dependencies lists.
RECURSIVE DependencyOrderings(_)
DependencyOrderings(ts) ==
    IF ts = <<>> THEN {<<>>}
    ELSE {<<[Head(ts) EXCEPT !.dependencies = d]>> \o rest :
             d \in Perms(Head(ts).dependencies),
             rest \in DependencyOrderings(Tail(ts))}

\* C12: when calculateCPM returns a schedule for a task list, it returns the
\* same projectDuration, the same per-task results and the same set of
\* criticalPath ids for every ordering of the tasks and every ordering of the
\* ids inside each dependencies list.
C12_OrderIndependent ==
    Returned =>
        \A o \in DependencyOrderings(tasks), f \in OrdersOf(Len(tasks)) :
            \A again \in {calculateCPM(Permuted(o, f))} :
                /\ again.thrown = "none"
                /\ again.value.projectDuration = cpmResults.projectDuration
                /\ again.value.taskResults = cpmResults.taskResults
                /\ Range(again.value.criticalPath) = Range(cpmResults.criticalPath)

\* A returned schedule of a project with a task of two dependencies, and an
\* ordering of it for which criticalPath lists the same ids in another order.
C12_Witness ==
    /\ Returned
    /\ \E i \in DOMAIN tasks : Len(tasks[i].dependencies) > 1
    /\ \E o \in DependencyOrderings(tasks), f \in OrdersOf(Len(tasks)) :
           calculateCPM(Permuted(o, f)).value.criticalPath # cpmResults.criticalPath

\* C13: for a non-empty task list in which no task has a dependency,
\* calculateCPM returns projectDuration = the largest duration, every task has
\* slack = projectDuration - its duration, and exactly the tasks of the largest
\* duration are critical; one task of duration 5 gives duration 5 and slack 0,
\* durations 3 and 7 give duration 7 and slacks 4 and 0.
C13_IndependentTasks ==
    (Called /\ \A i \in DOMAIN tasks : tasks[i].dependencies = <<>>) =>
        /\ Returned
        /\ cpmResults.projectDuration = MaxOf({tasks[i].duration : i \in DOMAIN tasks})
        /\ \A i \in DOMAIN tasks :
               LET r == cpmResults.taskResults[tasks[i].id]
               IN  /\ r.slack = cpmResults.projectDuration - tasks[i].duration
                   /\ r.isCritical <=> (tasks[i].duration = cpmResults.projectDuration)
        /\ Range(cpmResults.criticalPath) =
               {tasks[i].id : i \in {j \in DOMAIN tasks :
                                        tasks[j].duration = cpmResults.projectDuration}}
        /\ tasks = IndependentTasks(<<5>>) =>
               /\ cpmResults.projectDuration = 5
               /\ cpmResults.taskResults["A"].slack = 0
               /\ cpmResults.taskResults["A"].isCritical
        /\ tasks = IndependentTasks(<<3, 7>>) =>
               /\ cpmResults.projectDuration = 7
               /\ cpmResults.taskResults["A"].slack = 4
               /\ cpmResults.taskResults["B"].slack = 0
               /\ ~cpmResults.taskResults["A"].isCritical
               /\ cpmResults.taskResults["B"].isCritical

\* The schedule of the two independent tasks of durations 3 and 7.
C13_Witness ==
    /\ Returned
    /\ tasks = IndependentTasks(<<3, 7>>)

\* The ids reached from the ids of S by following dependencies entries.
RECURSIVE ReachedFrom(_, _)
ReachedFrom(S, deps) ==
    LET next == S \cup UNION {deps[id] \cap DOMAIN deps : id \in S}
    IN  IF next = S THEN S ELSE ReachedFrom(next, deps)

\* The task of this id depends on itself through one or more dependencies entries.
OnCycle(ts, id) ==
    /\ id \in IdsOf(ts)
    /\ id \in ReachedFrom(DependencySets(ts)[id] \cap IdsOf(ts), DependencySets(ts))

\* C14: when topologicalSort throws its cycle error, the task id the error
\* names is the id of a task that depends on itself through a chain of one or
\* more dependencies entries.
C14_ErrorNamesCycleTask ==
    callStatus = "CycleError" =>
        LET sort == topologicalSort(tasks, TaskMapOf(tasks))
        IN  /\ sort.thrown
            /\ OnCycle(tasks, sort.cycleTask)

\* A cycle error met while visiting from a first task that is on no cycle and
\* depends on a task that is.
C14_Witness ==
    /\ callStatus = "CycleError"
    /\ ~OnCycle(tasks, tasks[1].id)
    /\ \E d \in Range(tasks[1].dependencies) : OnCycle(tasks, d)

\* C15: in a returned schedule the tasks listed in criticalPath form one
\* dependency chain: in some order each lists the one before it among its
\* dependencies, the first has no dependencies, no task depends on the last,
\* and their durations add up to projectDuration.
C15_CriticalPathIsChain ==
    Returned =>
        \E chain \in Perms(cpmResults.criticalPath) :
            /\ chain # <<>>
            /\ DependenciesOf(tasks, chain[1]) = {}
            /\ \A k \in 2..Len(chain) : chain[k - 1] \in DependenciesOf(tasks, chain[k])
            /\ \A id \in IdsOf(tasks) : chain[Len(chain)] \notin DependenciesOf(tasks, id)
            /\ PathDuration(tasks, chain) = cpmResults.projectDuration

\* C16: for a task list calculateCPM returns a schedule for, calculateCPM_AoA
\* returns the same projectDuration, the same set of criticalPath ids and the
\* same per-task results.
C16_AoAEquivalent ==
    Returned =>
        LET aoa == calculateCPM_AoA(tasks)
        IN  /\ aoa.projectDuration = cpmResults.projectDuration
            /\ Range(aoa.criticalPath) = Range(cpmResults.criticalPath)
            /\ aoa.taskResults = cpmResults.taskResults

\* The task list is a fork-join A, B (dep A), C (dep A), D (deps B and C).
IsForkJoin(ts) ==
    /\ Len(ts) = Len(testTasks)
    /\ ts = ForkJoinTasks([i \in DOMAIN ts |-> ts[i].duration])

\* C17: for a fork-join calculateCPM returns projectDuration = dur(A) +
\* max(dur(B), dur(C)) + dur(D), B and C get slack = the longer of their two
\* durations minus their own, and A, D and the longer of B and C are critical;
\* for testTasks (durations 5, 3, 7, 2) it returns testCpmResults:
\* projectDuration 14, criticalPath [A, C, D], B with ES 5, EF 8, LS 9, LF 12,
\* slack 4.
C17_ForkJoin ==
    (Called /\ IsForkJoin(tasks)) =>
        /\ Returned
        /\ LET longer == MaxOf({tasks[2].duration, tasks[3].duration})
               r == cpmResults.taskResults
           IN  /\ cpmResults.projectDuration =
                      tasks[1].duration + longer + tasks[4].duration
               /\ r["B"].slack = longer - tasks[2].duration
               /\ r["C"].slack = longer - tasks[3].duration
               /\ r["A"].isCritical /\ r["D"].isCritical
               /\ r["B"].isCritical <=> (tasks[2].duration = longer)
               /\ r["C"].isCritical <=> (tasks[3].duration = longer)
        /\ tasks = testTasks => cpmResults = testCpmResults

\* The schedule of testTasks has been computed.
C17_Witness ==
    /\ Returned
    /\ tasks = testTasks

\* The chains of P and every chain that extends one of them by tasks that each
\* list the task before among their dependencies (ts has no cycle).
RECURSIVE ChainsFrom(_, _)
ChainsFrom(P, ts) ==
    LET longer == UNION {{Append(p, id) :
                             id \in {t \in IdsOf(ts) :
                                        p[Len(p)] \in DependenciesOf(ts, t)}} : p \in P}
    IN  IF longer = {} THEN P ELSE P \cup ChainsFrom(longer, ts)

\* The directed paths from a task without dependencies to a task no task depends on.
SourceToSinkPaths(ts) ==
    {p \in ChainsFrom({<<id>> : id \in {t \in IdsOf(ts) : DependenciesOf(ts, t) = {}}}, ts) :
        \A t \in IdsOf(ts) : p[Len(p)] \notin DependenciesOf(ts, t)}

\* C18: for a project without a cycle whose predecessor ids all name an activity
\* (and are listed once), findAllPaths returns exactly the directed paths from
\* an activity without predecessors to an activity without successors: each of
\* them once, nothing else, and in each returned path every activity lists the
\* one before it among its predecessors.
C18_AllPathsExact ==
    (projectPaths # NoResults /\ ~HasDangling(tasks)) =>
        /\ Range(projectPaths.paths) = SourceToSinkPaths(tasks)
        /\ \A j \in DOMAIN projectPaths.paths, k \in DOMAIN projectPaths.paths :
               projectPaths.paths[j] = projectPaths.paths[k] => j = k
        /\ \A j \in DOMAIN projectPaths.paths :
               \A k \in 2..Len(projectPaths.paths[j]) :
                   projectPaths.paths[j][k - 1] \in DependenciesOf(tasks, projectPaths.paths[j][k])

\* findAllPaths has returned several paths, one of them of three activities or
\* more, and two of them through the same activity.
C18_Witness ==
    /\ projectPaths # NoResults
    /\ ~HasDangling(tasks)
    /\ \E j \in DOMAIN projectPaths.paths, k \in DOMAIN projectPaths.paths :
           /\ j # k
           /\ Len(projectPaths.paths[j]) > 2
           /\ Range(projectPaths.paths[j]) \cap Range(projectPaths.paths[k]) # {}

\* C19: calculateCPM of cpmCalculator.ts returns a schedule only for a project
\* whose predecessor graph has no cycle, and the activities of the schedule are
\* in a sequence in which every activity comes after all of its predecessors.
C19_SortedOrFails ==
    cpmResult # NoResults =>
        /\ ~HasCycle(tasks)
        /\ \A k \in DOMAIN cpmResult.activities :
               \A p \in Range(cpmResult.activities[k].predecessors) \cap IdsOf(tasks) :
                   \E j \in 1..(k - 1) : cpmResult.activities[j].id = p

\* C20: for a task list without a cycle whose dependency ids all name a task
\* (ids unique), topologicalSort returns, for every order of the input, a
\* sequence that holds every task exactly once and nothing else, with every
\* task after each of its dependencies.
C20_SortIsTopological ==
    (Called /\ ~HasCycle(tasks) /\ ~HasDangling(tasks)) =>
        \A f \in OrdersOf(Len(tasks)) :
            \A sort \in {topologicalSort(Permuted(tasks, f), TaskMapOf(tasks))} :
                /\ ~sort.thrown
                /\ Len(sort.result) = Len(tasks)
                /\ Range(sort.result) = IdsOf(tasks)
                /\ \A k \in DOMAIN sort.result :
                       \A d \in DependenciesOf(tasks, sort.result[k]) :
                           \E j \in 1..(k - 1) : sort.result[j] = d

\* A sorted task list in which a task stood before one of its dependencies.
C20_Witness ==
    /\ Returned
    /\ \E i \in DOMAIN tasks, j \in DOMAIN tasks :
           /\ i < j
           /\ tasks[j].id \in Range(tasks[i].dependencies)
    /\ topologicalSort(tasks, TaskMapOf(tasks)).result # [i \in DOMAIN tasks |-> tasks[i].id]

\* C21: in a returned schedule every task with a dependency has earliestStart =
\* the largest earliestFinish of its dependencies, and in the sorted order the
\* forward scan follows every dependency stands before the task that names it,
\* so its earliestFinish is stored before it is read.
C21_EarliestStartIsMaxFinish ==
    Returned =>
        /\ \A id \in IdsOf(tasks) :
               DependenciesOf(tasks, id) \cap IdsOf(tasks) # {} =>
                   cpmResults.taskResults[id].earliestStart =
                       MaxOf({cpmResults.taskResults[d].earliestFinish :
                                 d \in DependenciesOf(tasks, id) \cap IdsOf(tasks)})
        /\ \A sorted \in {topologicalSort(tasks, TaskMapOf(tasks)).result} :
               \A k \in DOMAIN sorted :
                   \A d \in DependenciesOf(tasks, sorted[k]) \cap IdsOf(tasks) :
                       \E j \in 1..(k - 1) : sorted[j] = d

\* A returned schedule in which a task has two dependencies that finish at
\* different times, the earlier of them itself starting after time 0.
C21_Witness ==
    /\ Returned
    /\ \E id \in IdsOf(tasks), d \in IdsOf(tasks), e \in IdsOf(tasks) :
           /\ {d, e} \subseteq DependenciesOf(tasks, id)
           /\ cpmResults.taskResults[d].earliestFinish <
                  cpmResults.taskResults[e].earliestFinish
           /\ cpmResults.taskResults[d].earliestStart > 0

\* C22: in a returned schedule every task some other task names as a dependency
\* has latestFinish = the smallest latestStart of the tasks that name it, and
\* in the sorted order the backward scan follows in reverse every such task
\* stands after it, so its latestStart is stored before it is read.
C22_LatestFinishIsMinStart ==
    Returned =>
        /\ \A id \in IdsOf(tasks) :
               \A succs \in {{s \in IdsOf(tasks) : id \in DependenciesOf(tasks, s)}} :
                   succs # {} =>
                       cpmResults.taskResults[id].latestFinish =
                           MinOf({cpmResults.taskResults[s].latestStart : s \in succs})
        /\ \A sorted \in {topologicalSort(tasks, TaskMapOf(tasks)).result} :
               \A k \in DOMAIN sorted :
                   \A s \in {t \in IdsOf(tasks) : sorted[k] \in DependenciesOf(tasks, t)} :
                       \E j \in (k + 1)..Len(sorted) : sorted[j] = s

\* A returned schedule in which a task is named by two tasks that must start at
\* different times, the later of them finishing before the project does.
C22_Witness ==
    /\ Returned
    /\ \E id \in IdsOf(tasks), s \in IdsOf(tasks), t \in IdsOf(tasks) :
           /\ id \in DependenciesOf(tasks, s)
           /\ id \in DependenciesOf(tasks, t)
           /\ cpmResults.taskResults[s].latestStart <
                  cpmResults.taskResults[t].latestStart
           /\ cpmResults.taskResults[t].latestFinish < cpmResults.projectDuration

\* The source-to-sink paths whose durations sum to the project duration.
LongestPaths(ts, projectDuration) ==
    {p \in SourceToSinkPaths(ts) : PathDuration(ts, p) = projectDuration}

\* C27: in a returned schedule every task with slack 0 lies on a source-to-sink
\* path made of slack-0 tasks only whose durations sum to projectDuration, and
\* every task with slack above 0 lies on no path of that sum.
C27_ZeroSlackOnLongestPath ==
    Returned =>
        \A longest \in {LongestPaths(tasks, cpmResults.projectDuration)} :
            \A id \in IdsOf(tasks) :
                /\ cpmResults.taskResults[id].slack = 0 =>
                       \E p \in longest :
                           /\ id \in Range(p)
                           /\ \A t \in Range(p) : cpmResults.taskResults[t].slack = 0
                /\ cpmResults.taskResults[id].slack > 0 =>
                       \A p \in longest : id \notin Range(p)

\* A returned schedule with a slack-0 task that has dependencies and is named
\* by another task, beside a task with slack above 0.
C27_Witness ==
    /\ Returned
    /\ \E id \in IdsOf(tasks), s \in IdsOf(tasks), late \in IdsOf(tasks) :
           /\ cpmResults.taskResults[id].slack = 0
           /\ DependenciesOf(tasks, id) # {}
           /\ id \in DependenciesOf(tasks, s)
           /\ cpmResults.taskResults[late].slack > 0

\* C23: for a task list without a cycle whose dependency ids all name a task
\* (not empty, ids unique), the schedule the rescanning calculateCPM returns
\* and the schedule calculateCPM of cpm-app returns have the same
\* projectDuration, the same set of criticalPath ids and, for every task, the
\* same earliestStart, earliestFinish, latestStart, latestFinish, slack and
\* isCritical.
C23_VariantsAgree ==
    (pc = "done" /\ ~HasCycle(tasks) /\ ~HasDangling(tasks)) =>
        \A app \in {calculateCPM(tasks)} :
            /\ app.thrown = "none"
            /\ rescanResults.projectDuration = app.value.projectDuration
            /\ Range(rescanResults.criticalPath) = Range(app.value.criticalPath)
            /\ DOMAIN rescanResults.results = DOMAIN app.value.taskResults
            /\ \A id \in IdsOf(tasks) :
                   \A a \in {rescanResults.results[id]}, b \in {app.value.taskResults[id]} :
                       /\ a.earliestStart = b.earliestStart
                       /\ a.earliestFinish = b.earliestFinish
                       /\ a.latestStart = b.latestStart
                       /\ a.latestFinish = b.latestFinish
                       /\ a.slack = b.slack
                       /\ a.isCritical = b.isCritical

\* The rescanning variant has returned for a list in which a task stands
\* before one of its dependencies and some task has slack, and the two
\* variants list the critical ids in different orders.
C23_Witness ==
    /\ pc = "done"
    /\ ~HasCycle(tasks)
    /\ ~HasDangling(tasks)
    /\ \E i \in DOMAIN tasks, j \in DOMAIN tasks :
           /\ i < j
           /\ tasks[j].id \in Range(tasks[i].dependencies)
    /\ \E id \in IdsOf(tasks) : rescanResults.results[id].slack > 0
    /\ rescanResults.criticalPath # calculateCPM(tasks).value.criticalPath

\* Some task on a cycle of the dependency graph has a duration above 0.
PositiveCycle(ts) ==
    \E id \in IdsOf(ts) : OnCycle(ts, id) /\ DurationOf(ts, id) > 0

\* The first loop has pushed a start beyond the sum of all durations.
BeyondCap ==
    /\ pc = "earliest"
    /\ \E id \in DOMAIN earliest : earliest[id].start > RescanCap(tasks)

\* C24: on a task list with a cycle the rescanning calculateCPM reports no
\* cycle.  When a task on a cycle has a duration above 0 the call never leaves
\* the loop of calculateEarliestTimes, whose starts keep growing; when every
\* task on every cycle has duration 0 the call ends and returns a schedule
\* with an entry for every task.
C24_CycleNeverReported ==
    /\ [](PositiveCycle(tasks) => pc \in {"idle", "earliest"})
    /\ [](pc # "idle" /\ HasCycle(tasks) =>
              <>(IF PositiveCycle(tasks) THEN BeyondCap ELSE pc = "done"))
    /\ [](pc = "done" /\ HasCycle(tasks) =>
              /\ rescanResults # NoResults
              /\ DOMAIN rescanResults.results = IdsOf(tasks))

\* The first loop still runs on a list whose cycle holds a task of duration 0
\* and a task of duration above 0, with a start beyond the sum of all durations.
C24_Witness ==
    /\ BeyondCap
    /\ \E id \in IdsOf(tasks) : OnCycle(tasks, id) /\ DurationOf(tasks, id) > 0
    /\ \E id \in IdsOf(tasks) : OnCycle(tasks, id) /\ DurationOf(tasks, id) = 0

\* C25: on a task list without a cycle (durations 0 or above) each of the two
\* loops of the rescanning variant ends: a call that has begun returns.
C25_RescanEnds ==
    [](pc # "idle" /\ ~HasCycle(tasks) => <>(pc = "done"))

\* The call has returned for a list without a cycle in which a task stands
\* before one of its dependencies, so that the first scan of each loop cannot
\* have been the last, and a start has moved.
C25_Witness ==
    /\ pc = "done"
    /\ ~HasCycle(tasks)
    /\ \E i \in DOMAIN tasks, j \in DOMAIN tasks, k \in DOMAIN tasks :
           /\ i < j
           /\ j < k
           /\ tasks[j].id \in Range(tasks[i].dependencies)
           /\ tasks[k].id \in Range(tasks[j].dependencies)
           /\ earliest[tasks[i].id].start > earliest[tasks[j].id].start
           /\ earliest[tasks[j].id].start > 0

\* C26: for a project without a cycle in which some activity lists a
\* predecessor id that names no activity, calculateCPM of cpmCalculator.ts
\* returns a schedule whose projectDuration is the largest sum of durations
\* over the paths findAllPaths returns for the same project.
C26_DanglingDurationIsLongestPath ==
    (/\ cpmResult # NoResults
     /\ projectPaths # NoResults
     /\ ~HasCycle(tasks)
     /\ HasDangling(tasks)) =>
        /\ projectPaths.paths # <<>>
        /\ cpmResult.projectDuration =
               MaxOf({PathDuration(tasks, projectPaths.paths[k]) :
                         k \in DOMAIN projectPaths.paths})

\* C28: on the calculator page, where the DependencySelector is given no
\* allowCircular, the dependency graph of tasks has no cycle after any
\* sequence of add, start edit, dependency toggles among the tasks the
\* selector offers, save edit, cancel edit, delete, load sample project, tab
\* switch and new project that starts from the empty list.
C28_NoCycleOnPage == ~HasCycle(tasks)

\* C29: after any sequence of add, start edit, dependency toggles, save edit,
\* cancel edit and delete, every id in a task's dependencies names a task of
\* the list: no save of a form that was open during a delete brings the
\* deleted id back.
C29_DependenciesNameTasks == ~HasDangling(tasks)

\* C30: in every reachable state of the calculator page cpmResults is null or
\* is what calculateCPM returns for the current tasks; every step that
\* changes tasks other than loading the sample project leaves cpmResults
\* null, and loading the sample project leaves cpmResults equal to the
\* schedule of the sample tasks.
C30_ResultsAreCurrent ==
    /\ [](cpmResults = NoResults \/
          \E returned \in {calculateCPM(tasks)} :
              returned.thrown = "none" /\ cpmResults = returned.value)
    /\ [][tasks' # tasks /\ ~loadSampleData => cpmResults' = NoResults]_vars
    /\ [][loadSampleData => cpmResults' = SampleSchedule.value]_vars

\* A schedule is on the page for a list that is not the sample project: the
\* list was changed, which took the old schedule away, and calculated again.
C30_Witness ==
    /\ cpmResults # NoResults
    /\ changesLeft < MaxResultChanges
    /\ tasks # SampleTasks
    /\ \E i \in DOMAIN tasks : tasks[i].dependencies # <<>>

====
